---- MODULE Spec2Model ----
(***************************************************************************)
(* Model of the parameter-estimation engine of src/session2/fitting.py:    *)
(* the belief trajectory of loss_RL_model, the projected optimizer loop    *)
(* run_opt, and the multi-start / population fitters built on top of it.   *)
(* The shapes of the arrays inside loss_RL_model and the two parameter     *)
(* recovery harnesses have specifications of their own.                    *)
(*                                                                         *)
(* Floating point values are modelled as records [k, v]: k says whether    *)
(* the value is a number, NaN, +infinity or -infinity, and v is the number *)
(* on an integer grid (SCALE grid units are the value 1.0).  Comparisons   *)
(* and arithmetic follow IEEE-754 on the special values.                   *)
(***************************************************************************)
EXTENDS Integers, Sequences, FiniteSets, TLC

VARIABLES
  \* ---- run_opt ----
  paramsClip,   \* the bound specification {alphaMin, alphaMax, betaMin, betaMax}
  max_iter,     \* iteration limit
  tol,          \* gradient-norm tolerance
  initInside,   \* TRUE iff init_params was inside the bounds (history)
  params,       \* carry[0] of the while_loop
  state,        \* carry[1] of the while_loop: [count, grad]
  steps,        \* number of executions of step so far (history)
  clipped,      \* TRUE iff the projection of the last step changed a field (history)
  pc,           \* "loop" while the while_loop runs, "done" after run_opt returned
  \* ---- loss_RL_model, two calls r = 1, 2 with the same alpha and startingProb ----
  alpha,        \* the learning rate read from params
  startingProb, \* the starting probability
  opt1Rewarded, \* opt1Rewarded[r]: the outcome sequence of call r
  scanT,        \* scanT[r]: number of scan iterations done in call r
  carry,        \* carry[r]: the carry of jax.lax.scan in call r
  scanOut,      \* scanOut[r]: the outputs collected by the scan of call r
  probOpt1,     \* probOpt1[r]: the belief trajectory of call r, once built
  lpc,          \* lpc[r]: "scan" while call r scans, "done" once probOpt1 is built
  \* ---- fit_with_multiple_initial_values, fit_multiple_participants ----
  fit_model,    \* the fit variant passed as fit_model
  nInits,       \* the number of initializations
  fitMemo,      \* what fit_model returned so far, by (data, rng): it is a pure function
  data,         \* the data of the call of fit_with_multiple_initial_values
  laneOut,      \* laneOut[i]: (params, loss) of lane i of the vmapped fit_model
  bestParams,   \* what fit_with_multiple_initial_values returned, << >> before
  direct,       \* what a call of fit_model(data) returned, << >> before
  popData,      \* the stacked data of the call of fit_multiple_participants
  popOut,       \* popOut[s]: the returned parameters of subject s
  solo,         \* solo[d]: what fit_with_multiple_initial_values returned for d alone
  raised,       \* the exception the call ended with, "" when there is none
  laneRngs,     \* laneRngs[<<s, i>>]: the rng given to lane i of subject s (history)
  finished,     \* the lanes of fit_model_vectorised that are back (history)
  ascending,    \* TRUE iff these lanes finished in the order of their index (history)
  \* ---- the array shapes in a call of loss_RL_model / fit_with_multiple_initial_values ----
  entry,        \* the function that was called with the data
  lens,         \* the lengths of opt1Rewarded, magOpt1, magOpt2, choice1
  shapes,       \* the lengths of the arrays computed so far, by name
  spc,          \* the line the call is at, "returned" or "error" at the end
  evals,        \* the number of loss values computed so far
  \* ---- run_paramterer_recovery ----
  simulatedAlphaRange,
  simulatedBetaRange,
  alphaIdx,     \* the loop variable alpha (counted from 1)
  betaIdx,      \* the loop variable beta (counted from 1)
  counter,      \* the iteration counter (the row being filled is counter + 1)
  dataMat,      \* row s: what opt1RewardedMat, magOpt1Mat, magOpt2Mat, choice1Mat hold for subject s
  recoveryData, \* the table
  recParams,    \* what fit_multiple_participants returned, << >> before
  fitCalls,     \* the number of calls of fit_multiple_participants so far (history)
  nSchedules,   \* the number of calls of generate_schedule so far
  rpc,          \* the line the run is at: "schedule", "simulate", "save", "fit", "write", "done"
  \* ---- run_paramterer_recovery_with_difference ----
  truths,       \* truths[p]: stableAlphas[p], volatileAlphas[p], betas[p]
  lenStable,    \* len(trueProbabilityStable)
  lenVolatile,  \* len(trueProbabilityVolatile)
  subj,         \* the loop variable p (counted from 1)
  stableMat,    \* row p: what the four stable matrices hold for subject p
  volatileMat,  \* row p: what the four volatile matrices hold for subject p
  fittedParameters, \* the table
  dpc           \* the line the run is at: "loop", "fit", "done", or "error"

optVars == <<paramsClip, max_iter, tol, initInside, params, state, steps, clipped, pc>>
lossVars == <<alpha, startingProb, opt1Rewarded, scanT, carry, scanOut, probOpt1, lpc>>
fitVars == <<fit_model, nInits, fitMemo, data, laneOut, bestParams, direct,
             popData, popOut, solo, raised, laneRngs, finished, ascending>>
shapeVars == <<entry, lens, shapes, spc, evals>>
recVars == <<simulatedAlphaRange, simulatedBetaRange, alphaIdx, betaIdx, counter,
             dataMat, recoveryData, recParams, fitCalls, nSchedules, rpc>>
diffVars == <<truths, lenStable, lenVolatile, subj, stableMat, volatileMat,
              fittedParameters, dpc>>
vars == <<optVars, lossVars, fitVars, shapeVars, recVars, diffVars>>

----------------------------------------------------------------------------
\* Bounds of the model

\* grid units per 1.0: the default bounds [0, 1] are [0, SCALE]
SCALE == 2
\* max_iter ranges over -1 .. MaxMaxIter
MaxMaxIter == 2
\* tol ranges over 0 .. MaxTol grid units
MaxTol == 2
\* a gradient component is 0, MaxGrad or NaN
MaxGrad == 1
\* a finite optimizer update is -MaxUpd, 0 or MaxUpd
MaxUpd == 1
\* a trial batch has 0 .. MaxTrials trials
MaxTrials == 3
\* alpha and startingProb are multiples of 1 / RatDen
RatDen == 2
\* fit_with_multiple_initial_values is called with nInits in 1 .. MaxInits
MaxInits == 3
\* fit_multiple_participants is called with nInits in 1 .. MaxPopInits
MaxPopInits == 2
\* and with a stack of MaxSubjects subjects
MaxSubjects == 2
\* each of the four sequences of a batch has 0 .. MaxLen elements
MaxLen == 3
\* simulatedAlphaRange and simulatedBetaRange have 1 .. MaxGrid elements, each
\* one of the values 1 .. MaxGrid (in grid units)
MaxGrid == 2
\* trueProbabilityStable and trueProbabilityVolatile have 1 .. MaxSched trials
MaxSched == 3

----------------------------------------------------------------------------
\* Floating point values

Num(v) == [k |-> "num", v |-> v]
NaN    == [k |-> "nan", v |-> 0]
PInf   == [k |-> "pinf", v |-> 0]
NInf   == [k |-> "ninf", v |-> 0]

IsNaN(x)    == x.k = "nan"
IsFinite(x) == x.k = "num"

\* x < y, false as soon as one side is NaN
FLt(x, y) ==
  /\ ~IsNaN(x)
  /\ ~IsNaN(y)
  /\ \/ x.k = "ninf" /\ y.k # "ninf"
     \/ x.k = "num" /\ y.k = "pinf"
     \/ x.k = "num" /\ y.k = "num" /\ x.v < y.v

\* x + y
FAdd(x, y) ==
  IF IsNaN(x) \/ IsNaN(y) THEN NaN
  ELSE IF x.k = "num" /\ y.k = "num" THEN Num(x.v + y.v)
  ELSE IF x.k = "num" THEN y
  ELSE IF y.k = "num" THEN x
  ELSE IF x.k = y.k THEN x
  ELSE NaN

\* jnp.maximum and jnp.minimum: a NaN operand gives NaN
FMax(x, y) == IF IsNaN(x) \/ IsNaN(y) THEN NaN ELSE IF FLt(x, y) THEN y ELSE x
FMin(x, y) == IF IsNaN(x) \/ IsNaN(y) THEN NaN ELSE IF FLt(y, x) THEN y ELSE x

\* mutant: only the upper bound is applied
clip_upper_only(x, lo, hi) == FMin(x, hi)

\* jnp.clip(x, lo, hi) = minimum(maximum(x, lo), hi)
clip(x, lo, hi) == FMin(FMax(x, lo), hi)

----------------------------------------------------------------------------
\* Exact fractions n / d (d > 0, lowest terms) for the belief trajectory

RECURSIVE GCD(_, _)
GCD(a, b) == IF b = 0 THEN a ELSE GCD(b, a % b)

Abs(a) == IF a < 0 THEN -a ELSE a

Rat(n, d) ==
  LET g == GCD(Abs(n), d) IN [n |-> n \div g, d |-> d \div g]

RAdd(x, y) == Rat(x.n * y.d + y.n * x.d, x.d * y.d)
RSub(x, y) == Rat(x.n * y.d - y.n * x.d, x.d * y.d)
RMul(x, y) == Rat(x.n * y.n, x.d * y.d)
RLe(x, y)  == x.n * y.d <= y.n * x.d

----------------------------------------------------------------------------
\* The variables of the parts a specification does not run

OptIdle ==
  /\ paramsClip = [alphaMin |-> 0, alphaMax |-> 0, betaMin |-> 0, betaMax |-> 0]
  /\ max_iter = 0
  /\ tol = 0
  /\ initInside = FALSE
  /\ params = << >>
  /\ state = << >>
  /\ steps = 0
  /\ clipped = FALSE
  /\ pc = "idle"

LossIdle ==
  /\ alpha = Rat(0, 1)
  /\ startingProb = Rat(0, 1)
  /\ opt1Rewarded = << >>
  /\ scanT = << >>
  /\ carry = << >>
  /\ scanOut = << >>
  /\ probOpt1 = << >>
  /\ lpc = << >>

FitIdle ==
  /\ fit_model = "none"
  /\ nInits = 0
  /\ fitMemo = << >>
  /\ data = "none"
  /\ laneOut = << >>
  /\ bestParams = << >>
  /\ direct = << >>
  /\ popData = << >>
  /\ popOut = << >>
  /\ solo = << >>
  /\ raised = ""
  /\ laneRngs = << >>
  /\ finished = {}
  /\ ascending = TRUE

ShapeIdle ==
  /\ entry = "none"
  /\ lens = << >>
  /\ shapes = << >>
  /\ spc = "idle"
  /\ evals = 0

RecIdle ==
  /\ simulatedAlphaRange = << >>
  /\ simulatedBetaRange = << >>
  /\ alphaIdx = 0
  /\ betaIdx = 0
  /\ counter = 0
  /\ dataMat = << >>
  /\ recoveryData = << >>
  /\ recParams = << >>
  /\ fitCalls = 0
  /\ nSchedules = 0
  /\ rpc = "idle"

DiffIdle ==
  /\ truths = << >>
  /\ lenStable = 0
  /\ lenVolatile = 0
  /\ subj = 0
  /\ stableMat = << >>
  /\ volatileMat = << >>
  /\ fittedParameters = << >>
  /\ dpc = "idle"

----------------------------------------------------------------------------
\* loss_RL_model: the belief trajectory

Runs == {1, 2}

nTrials(r) == Len(opt1Rewarded[r])

\* mutant: the prediction error is subtracted
compute_probOpt1_minus(c, t, r) ==
  RSub(c, RMul(alpha, RSub(Rat(opt1Rewarded[r][t], 1), c)))

\* mutant: the prediction error is taken against startingProb, not the carry
compute_probOpt1_from_start(c, t, r) ==
  RAdd(c, RMul(alpha, RSub(Rat(opt1Rewarded[r][t], 1), startingProb)))

\* compute_probOpt1(carry, t) of call r: delta = opt1Rewarded[t] - probOpt1,
\* probOpt1 + alpha * delta (t counts from 1 here)
compute_probOpt1(c, t, r) ==
  RAdd(c, RMul(alpha, RSub(Rat(opt1Rewarded[r][t], 1), c)))

\* mutant: the scan output is used as it is, without the shift by one trial
shift_trajectory_none(p0, out) == out

\* jnp.concatenate([jnp.array([startingProb]), probOpt1[:-1]])
shift_trajectory(p0, out) == <<p0>> \o SubSeq(out, 1, Len(out) - 1)

LossInit ==
  /\ alpha \in { Rat(a, RatDen) : a \in 0 .. RatDen + 1 }
  /\ startingProb \in { Rat(q, RatDen) : q \in 0 .. RatDen }
  /\ \E T \in 0 .. MaxTrials : opt1Rewarded \in [Runs -> [1 .. T -> {0, 1}]]
  /\ scanT = [r \in Runs |-> 0]
  /\ carry = [r \in Runs |-> startingProb]
  /\ scanOut = [r \in Runs |-> << >>]
  /\ probOpt1 = [r \in Runs |-> << >>]
  /\ lpc = [r \in Runs |-> "scan"]
  /\ OptIdle
  /\ FitIdle
  /\ ShapeIdle
  /\ RecIdle
  /\ DiffIdle

\* one iteration of jax.lax.scan(compute_probOpt1, startingProb, arange(nTrials))
scan_step(r) ==
  /\ lpc[r] = "scan"
  /\ scanT[r] < nTrials(r)
  /\ LET new == compute_probOpt1(carry[r], scanT[r] + 1, r)
     IN /\ carry' = [carry EXCEPT ![r] = new]
        /\ scanOut' = [scanOut EXCEPT ![r] = Append(@, new)]
  /\ scanT' = [scanT EXCEPT ![r] = @ + 1]
  /\ UNCHANGED <<alpha, startingProb, opt1Rewarded, probOpt1, lpc>>
  /\ UNCHANGED <<optVars, fitVars, shapeVars, recVars, diffVars>>

\* the scan is over: the trajectory is the scan output shifted by one trial
build_trajectory(r) ==
  /\ lpc[r] = "scan"
  /\ scanT[r] = nTrials(r)
  /\ probOpt1' = [probOpt1 EXCEPT ![r] = shift_trajectory(startingProb, scanOut[r])]
  /\ lpc' = [lpc EXCEPT ![r] = "done"]
  /\ UNCHANGED <<alpha, startingProb, opt1Rewarded, scanT, carry, scanOut>>
  /\ UNCHANGED <<optVars, fitVars, shapeVars, recVars, diffVars>>

LossNext == \E r \in Runs : scan_step(r) \/ build_trajectory(r)

SpecLoss == LossInit /\ [][LossNext]_vars

----------------------------------------------------------------------------
\* run_opt

\* sub in name: sub occurs in name as a substring
InName(sub, name) ==
  \E i \in 1 .. Len(name) - Len(sub) + 1 :
    SubSeq(name, i, i + Len(sub) - 1) = sub

\* 'alpha' in name, 'beta' in name
NameHasAlpha(name) == InName("alpha", name)
NameHasBeta(name)  == InName("beta", name)

\* mutant: the test for 'beta' comes first
clip_param_beta_first(param, name) ==
  IF NameHasBeta(name)
    THEN clip(param, Num(paramsClip.betaMin), Num(paramsClip.betaMax))
  ELSE IF NameHasAlpha(name)
    THEN clip(param, Num(paramsClip.alphaMin), Num(paramsClip.alphaMax))
  ELSE param

clip_param(param, name) ==
  IF NameHasAlpha(name)
    THEN clip(param, Num(paramsClip.alphaMin), Num(paramsClip.alphaMax))
  ELSE IF NameHasBeta(name)
    THEN clip(param, Num(paramsClip.betaMin), Num(paramsClip.betaMax))
  ELSE param

\* mutant: the projection is left out
project_params_none(p) == p

project_params(p) == [name \in DOMAIN p |-> clip_param(p[name], name)]

\* optax.apply_updates(params, updates)
apply_updates(p, updates) == [name \in DOMAIN p |-> FAdd(p[name], updates[name])]

RECURSIVE SumSq(_, _)
SumSq(g, names) ==
  IF names = {} THEN 0
  ELSE LET n == CHOOSE m \in names : TRUE
       IN g[n].v * g[n].v + SumSq(g, names \ {n})

\* the square of otu.tree_l2_norm(grad); NaN as soon as one component is NaN
NormSq(g) ==
  IF \E n \in DOMAIN g : IsNaN(g[n]) THEN NaN ELSE Num(SumSq(g, DOMAIN g))

\* err >= tol, on the squares (err >= 0, tol >= 0); false when err is NaN
ErrGeTol(g, t) == ~FLt(NormSq(g), Num(t * t)) /\ ~IsNaN(NormSq(g))

\* mutant: the limit is compared with <= instead of <
continuing_criterion_le(st) ==
  \/ st.count = 0
  \/ st.count <= max_iter /\ ErrGeTol(st.grad, tol)

\* mutant: iteration 0 is not exempt from the stopping test
continuing_criterion_no_first(st) ==
  st.count < max_iter /\ ErrGeTol(st.grad, tol)

continuing_criterion(st) ==
  \/ st.count = 0
  \/ st.count < max_iter /\ ErrGeTol(st.grad, tol)

\* opt.init(init_params): count 0 and a zero gradient
opt_init(p) == [count |-> 0, grad |-> [name \in DOMAIN p |-> Num(0)]]

ParamNames == {"alpha", "beta"}

\* the bound specifications: the default {0, 1, 0, 1} and one with
\* different alpha and beta intervals
ClipConfigs ==
  { [alphaMin |-> 0, alphaMax |-> SCALE, betaMin |-> 0, betaMax |-> SCALE],
    [alphaMin |-> 1, alphaMax |-> SCALE, betaMin |-> 0, betaMax |-> 1] }

InitVals == { Num(v) : v \in -1 .. SCALE + 1 }
GradVals == {Num(0), Num(MaxGrad), NaN}
UpdVals  == {Num(-MaxUpd), Num(0), Num(MaxUpd), NaN, PInf, NInf}

\* lo <= x <= hi
Within(x, lo, hi) == ~IsNaN(x) /\ ~FLt(x, Num(lo)) /\ ~FLt(Num(hi), x)

InsideBounds(p, name) ==
  /\ NameHasAlpha(name) => Within(p[name], paramsClip.alphaMin, paramsClip.alphaMax)
  /\ NameHasBeta(name)  => Within(p[name], paramsClip.betaMin, paramsClip.betaMax)

OptInit ==
  /\ paramsClip \in ClipConfigs
  /\ max_iter \in -1 .. MaxMaxIter
  /\ tol \in 0 .. MaxTol
  /\ params \in [ParamNames -> InitVals]
  /\ initInside = \A name \in ParamNames : InsideBounds(params, name)
  /\ state = opt_init(params)
  /\ steps = 0
  /\ clipped = FALSE
  /\ pc = "loop"
  /\ LossIdle
  /\ FitIdle
  /\ ShapeIdle
  /\ RecIdle
  /\ DiffIdle

\* one iteration of the while_loop: the loss gradient at params is stored in
\* the state, the optimizer proposes updates, they are applied and projected
step ==
  /\ pc = "loop"
  /\ continuing_criterion(state)
  /\ \E grad \in [DOMAIN params -> GradVals], updates \in [DOMAIN params -> UpdVals] :
       /\ params' = project_params(apply_updates(params, updates))
       /\ clipped' = (params' # apply_updates(params, updates))
       /\ state' = [count |-> state.count + 1, grad |-> grad]
  /\ steps' = steps + 1
  /\ UNCHANGED <<paramsClip, max_iter, tol, initInside, pc>>
  /\ UNCHANGED <<lossVars, fitVars, shapeVars, recVars, diffVars>>

\* the while_loop ends and run_opt returns (params, state)
run_opt_return ==
  /\ pc = "loop"
  /\ ~continuing_criterion(state)
  /\ pc' = "done"
  /\ UNCHANGED <<paramsClip, max_iter, tol, initInside, params, state, steps, clipped>>
  /\ UNCHANGED <<lossVars, fitVars, shapeVars, recVars, diffVars>>

OptNext == step \/ run_opt_return

SpecOpt == OptInit /\ [][OptNext]_vars

\* run_opt on parameter structures other than {alpha, beta}.  A structure is
\* given by its leaves, each a pair <<path of the enclosing dict, key>>: a
\* name with 'alpha' only, a name with 'beta' and 'alpha', a name with
\* neither, and a key 'beta' inside a dict 'alpha'
Trees ==
  { { <<"", "alphaStable">>, <<"", "beta">> },
    { <<"", "beta_alpha">>, <<"", "Alpha">> },
    { <<"alpha", "beta">>, <<"", "gamma">> } }

\* path + '.' + k if path else k
join_path(path, k) == IF path = "" THEN k ELSE path \o "." \o k

\* the names apply_clip hands to clip_param for the leaves of a structure
PathsOf(tree) == { join_path(leaf[1], leaf[2]) : leaf \in tree }

\* the bound specification with different intervals for alpha and beta
ProjClip == [alphaMin |-> 1, alphaMax |-> SCALE, betaMin |-> 0, betaMax |-> 1]

ProjInit ==
  /\ paramsClip = ProjClip
  /\ max_iter = MaxMaxIter
  /\ tol = 0
  /\ \E tree \in Trees : params \in [PathsOf(tree) -> {Num(0), Num(SCALE)}]
  /\ initInside = \A name \in DOMAIN params : InsideBounds(params, name)
  /\ state = opt_init(params)
  /\ steps = 0
  /\ clipped = FALSE
  /\ pc = "loop"
  /\ LossIdle
  /\ FitIdle
  /\ ShapeIdle
  /\ RecIdle
  /\ DiffIdle

SpecProject == ProjInit /\ [][OptNext]_vars

\* run_opt from one initialization, for every max_iter and tol
TermInit ==
  /\ paramsClip = ProjClip
  /\ max_iter \in -1 .. MaxMaxIter
  /\ tol \in 0 .. MaxTol
  /\ params = [name \in ParamNames |-> Num(1)]
  /\ initInside = \A name \in ParamNames : InsideBounds(params, name)
  /\ state = opt_init(params)
  /\ steps = 0
  /\ clipped = FALSE
  /\ pc = "loop"
  /\ LossIdle
  /\ FitIdle
  /\ ShapeIdle
  /\ RecIdle
  /\ DiffIdle

\* jax.lax.while_loop evaluates the criterion and the body one after the
\* other until the criterion is false: a step that can be taken is taken
SpecOptLive == TermInit /\ [][OptNext]_vars /\ WF_vars(OptNext)

----------------------------------------------------------------------------
\* fit_model_same_alpha / fit_model_alpha_difference as seen by their callers

Variants == {"fit_model_same_alpha", "fit_model_alpha_difference"}

\* what a caller can pass as fit_model: one of the variants or another callable
Selectors == Variants \cup {"other"}

\* the fields of initParams, and so of finalParams
FieldsOf(fm) ==
  IF fm = "fit_model_same_alpha" THEN {"alpha", "beta"}
  ELSE {"alphaStable", "alphaVolatile", "beta"}

\* the trial batches a call can be given
DataVals == {"batchA", "batchB"}

\* jax.random.PRNGKey(seed): the key data (0, seed)
PRNGKey(seed) == <<0, seed>>

\* mutant: a call without an rng falls back to seed 1
DefaultRng_one(rng) == IF rng = << >> THEN PRNGKey(1) ELSE rng

\* if rng is None: rng = jax.random.PRNGKey(0)
DefaultRng(rng) == IF rng = << >> THEN PRNGKey(0) ELSE rng

\* the parameter vectors and losses a fit can end with: run_opt returns
\* fields inside the default bounds [0, 1] or NaN, the loss is any float
ParamVecs(fm) ==
  { [f \in FieldsOf(fm) |-> v] : v \in {Num(0), Num(SCALE), NaN} }
LossVals == {Num(0), Num(1), NaN, PInf, NInf}
Results(fm) == [params : ParamVecs(fm), loss : LossVals]
PopResults(fm) ==
  { [params |-> [f \in FieldsOf(fm) |-> Num(0)], loss |-> Num(1)],
    [params |-> [f \in FieldsOf(fm) |-> Num(SCALE)], loss |-> Num(0)],
    [params |-> [f \in FieldsOf(fm) |-> Num(0)], loss |-> NaN] }

\* fit_model is a jitted pure function: a call with a (data, rng) it was
\* called with before returns what it returned before
Returns(m, d, rng, res) ==
  <<d, DefaultRng(rng)>> \in DOMAIN m => res = m[<<d, DefaultRng(rng)>>]

Remember(m, d, rng, res) ==
  [k \in DOMAIN m \cup {<<d, DefaultRng(rng)>>} |->
     IF k = <<d, DefaultRng(rng)>> THEN res ELSE m[k]]

----------------------------------------------------------------------------
\* fit_with_multiple_initial_values

\* mutant: the else branch is missing, every selector goes on to the lanes
valid_selector_any(fm) == TRUE

\* if fit_model == fit_model_same_alpha / elif fit_model ==
\* fit_model_alpha_difference: the data is tiled; otherwise the else branch
\* raises
valid_selector(fm) == fm \in Variants

\* jnp.tile(x, (nInits, 1)): one copy of the data per lane
tile(d, n) == [i \in 1 .. n |-> d]

\* mutant: the seeds are counted from 1
initial_rngs_from_one(n) == [i \in 1 .. n |-> PRNGKey(i)]

\* mutant: every lane is given PRNGKey(0)
initial_rngs_same(n) == [i \in 1 .. n |-> PRNGKey(0)]

\* jnp.stack([PRNGKey(i) for i in range(nInits)]); lane i of range(nInits)
\* is element i + 1 here
initial_rngs(n) == [i \in 1 .. n |-> PRNGKey(i - 1)]

\* mutant: the outputs are stacked in the order the lanes finish
store_lane_append(out, i, res) == Append(out, res)

\* the output of lane i of a vmapped function is element i of the stacked output
store_lane(out, i, res) ==
  [j \in DOMAIN out \cup {i} |-> IF j = i THEN res ELSE out[j]]

\* jnp.nanargmin(loss): NaN counts as +inf, the first minimum wins, and the
\* result is -1 when every loss is NaN (the result counts from 0)
nanargmin(loss) ==
  LET a == [i \in DOMAIN loss |-> IF IsNaN(loss[i]) THEN PInf ELSE loss[i]]
      res == CHOOSE i \in DOMAIN a :
               /\ \A j \in DOMAIN a : ~FLt(a[j], a[i])
               /\ \A j \in DOMAIN a : j < i => FLt(a[i], a[j])
  IN IF \A i \in DOMAIN loss : IsNaN(loss[i]) THEN -1 ELSE res - 1

\* x[i] for a 0-based index; a negative index counts from the end
Index(x, i) == IF i < 0 THEN x[Len(x) + i + 1] ELSE x[i + 1]

get_params(fm, p, loss) ==
  LET bestFit == nanargmin(loss)
  IN [f \in FieldsOf(fm) |-> Index(p[f], bestFit)]

\* the stacked outputs of the vmapped fit_model: params[field][lane], loss[lane]
StackParams(fm, out) ==
  [f \in FieldsOf(fm) |-> [i \in DOMAIN out |-> out[i].params[f]]]
StackLoss(out) == [i \in DOMAIN out |-> out[i].loss]

MultiInit ==
  /\ fit_model \in Selectors
  /\ nInits \in 1 .. MaxInits
  /\ data = "batchA"
  /\ fitMemo = << >>
  /\ laneOut = << >>
  /\ bestParams = << >>
  /\ direct = << >>
  /\ popData = << >>
  /\ popOut = << >>
  /\ solo = << >>
  /\ raised = ""
  /\ laneRngs = << >>
  /\ finished = {}
  /\ ascending = TRUE
  /\ OptIdle
  /\ LossIdle
  /\ ShapeIdle
  /\ RecIdle
  /\ DiffIdle

\* raise ValueError("fit_model must be either fit_model_same_alpha or
\* fit_model_alpha_difference"): the call ends here
raise_ValueError ==
  /\ ~valid_selector(fit_model)
  /\ raised = ""
  /\ raised' = "ValueError"
  /\ UNCHANGED <<fit_model, nInits, fitMemo, data, laneOut, bestParams, direct,
                 popData, popOut, solo, laneRngs, finished, ascending>>
  /\ UNCHANGED <<optVars, lossVars, shapeVars, recVars, diffVars>>

\* lane i of fit_model_vectorised(data, initial_rngs) finishes
run_lane(i) ==
  /\ data \in DataVals
  /\ valid_selector(fit_model)
  /\ raised = ""
  /\ i \notin finished
  /\ bestParams = << >>
  /\ \E res \in Results(fit_model) :
       /\ Returns(fitMemo, tile(data, nInits)[i], initial_rngs(nInits)[i], res)
       /\ fitMemo' = Remember(fitMemo, tile(data, nInits)[i], initial_rngs(nInits)[i], res)
       /\ laneOut' = store_lane(laneOut, i, res)
  /\ laneRngs' = [k \in DOMAIN laneRngs \cup {<<1, i>>} |->
                    IF k = <<1, i>> THEN initial_rngs(nInits)[i] ELSE laneRngs[k]]
  /\ finished' = finished \cup {i}
  /\ ascending' = (ascending /\ \A j \in finished : j < i)
  /\ UNCHANGED <<fit_model, nInits, data, bestParams, direct, popData, popOut, solo, raised>>
  /\ UNCHANGED <<optVars, lossVars, shapeVars, recVars, diffVars>>

\* all lanes are back: return get_params(params, loss)
return_best ==
  /\ data \in DataVals
  /\ finished = 1 .. nInits
  /\ bestParams = << >>
  /\ bestParams' = get_params(fit_model, StackParams(fit_model, laneOut), StackLoss(laneOut))
  /\ UNCHANGED <<fit_model, nInits, fitMemo, data, laneOut, direct, popData, popOut, solo,
                 raised, laneRngs, finished, ascending>>
  /\ UNCHANGED <<optVars, lossVars, shapeVars, recVars, diffVars>>

\* fit_with_multiple_initial_values has returned; a call fit_model(data) on
\* the same data, without an rng
direct_fit ==
  /\ data \in DataVals
  /\ fit_model \in Variants
  /\ bestParams # << >>
  /\ direct = << >>
  /\ \E res \in Results(fit_model) :
       /\ Returns(fitMemo, data, << >>, res)
       /\ fitMemo' = Remember(fitMemo, data, << >>, res)
       /\ direct' = res
  /\ UNCHANGED <<fit_model, nInits, data, laneOut, bestParams, popData, popOut, solo,
                 raised, laneRngs, finished, ascending>>
  /\ UNCHANGED <<optVars, lossVars, shapeVars, recVars, diffVars>>

MultiNext ==
  \/ raise_ValueError
  \/ \E i \in 1 .. nInits : run_lane(i)
  \/ return_best
  \/ direct_fit

SpecMulti == MultiInit /\ [][MultiNext]_vars

----------------------------------------------------------------------------
\* fit_multiple_participants

\* mutant: every subject lane is given the data of the first subject
vmap_slice_first(stack, s) == stack[1]

\* jax.vmap over the leading axis: subject lane s gets the slice s of the stack
vmap_slice(stack, s) == stack[s]

\* mutant: every subject is given seeds of its own
lane_rngs_by_subject(s, n) == [i \in 1 .. n |-> PRNGKey((s - 1) * n + i - 1)]

\* the vmapped fit_with_multiple_initial_values builds initial_rngs from
\* range(nInits) in the lane of every subject s
lane_rngs(s, n) == initial_rngs(n)

\* fit_with_multiple_initial_values(d, nInits, fit_model) as one call: the
\* lanes, seeded with rngs, return rs, and the result is get_params of the
\* stacked lanes; lanes with the same data and rng return the same
LanesReturn(m, d, rngs, rs) ==
  /\ \A i \in DOMAIN rs : Returns(m, tile(d, nInits)[i], rngs[i], rs[i])
  /\ \A i, j \in DOMAIN rs : rngs[i] = rngs[j] => rs[i] = rs[j]

RememberLanes(m, d, rngs, rs) ==
  [k \in DOMAIN m \cup { <<d, rngs[i]>> : i \in DOMAIN rs } |->
     IF \E i \in DOMAIN rs : k = <<d, rngs[i]>>
       THEN rs[CHOOSE i \in DOMAIN rs : k = <<d, rngs[i]>>]
       ELSE m[k]]

PopInit ==
  /\ fit_model \in Selectors
  /\ nInits \in 1 .. MaxPopInits
  /\ popData \in [1 .. MaxSubjects -> DataVals]
  /\ fitMemo = << >>
  /\ popOut = << >>
  /\ solo = << >>
  /\ data = "none"
  /\ laneOut = << >>
  /\ bestParams = << >>
  /\ direct = << >>
  /\ raised = ""
  /\ laneRngs = << >>
  /\ finished = {}
  /\ ascending = TRUE
  /\ OptIdle
  /\ LossIdle
  /\ ShapeIdle
  /\ RecIdle
  /\ DiffIdle

\* subject lane s of the vmapped fit_with_multiple_initial_values finishes
fit_subject(s) ==
  /\ s \notin DOMAIN popOut
  /\ valid_selector(fit_model)
  /\ raised = ""
  /\ \E rs \in [1 .. nInits -> PopResults(fit_model)] :
       /\ LanesReturn(fitMemo, vmap_slice(popData, s), lane_rngs(s, nInits), rs)
       /\ fitMemo' = RememberLanes(fitMemo, vmap_slice(popData, s), lane_rngs(s, nInits), rs)
       /\ popOut' = [t \in DOMAIN popOut \cup {s} |->
                       IF t = s
                         THEN get_params(fit_model, StackParams(fit_model, rs), StackLoss(rs))
                         ELSE popOut[t]]
  /\ laneRngs' = [k \in DOMAIN laneRngs \cup { <<s, i>> : i \in 1 .. nInits } |->
                    IF k[1] = s THEN lane_rngs(s, nInits)[k[2]] ELSE laneRngs[k]]
  /\ UNCHANGED <<fit_model, nInits, data, laneOut, bestParams, direct, popData, solo,
                 raised, finished, ascending>>
  /\ UNCHANGED <<optVars, lossVars, shapeVars, recVars, diffVars>>

\* fit_multiple_participants has returned; a call of
\* fit_with_multiple_initial_values on the batch d of one of the subjects alone
solo_fit(d) ==
  /\ d \notin DOMAIN solo
  /\ DOMAIN popOut = DOMAIN popData
  /\ \E s \in DOMAIN popData : popData[s] = d
  /\ \E rs \in [1 .. nInits -> PopResults(fit_model)] :
       /\ LanesReturn(fitMemo, d, initial_rngs(nInits), rs)
       /\ fitMemo' = RememberLanes(fitMemo, d, initial_rngs(nInits), rs)
       /\ solo' = [e \in DOMAIN solo \cup {d} |->
                     IF e = d
                       THEN get_params(fit_model, StackParams(fit_model, rs), StackLoss(rs))
                       ELSE solo[e]]
  /\ UNCHANGED <<fit_model, nInits, data, laneOut, bestParams, direct, popData, popOut,
                 raised, laneRngs, finished, ascending>>
  /\ UNCHANGED <<optVars, lossVars, shapeVars, recVars, diffVars>>

PopNext ==
  \/ raise_ValueError
  \/ \E s \in 1 .. Len(popData) : fit_subject(s)
  \/ \E d \in DataVals : solo_fit(d)

SpecPop == PopInit /\ [][PopNext]_vars

\* the two entry points together: a call of fit_with_multiple_initial_values
\* or a call of fit_multiple_participants
FitInit == MultiInit \/ PopInit

FitNext == MultiNext \/ PopNext

SpecFit == FitInit /\ [][FitNext]_vars

----------------------------------------------------------------------------
\* The array shapes of loss_RL_model.  The function is jitted: the shapes are
\* worked out line by line when it is traced, an operation on arrays that do
\* not fit raises there, and the loss value is computed only once the trace
\* is complete.

EntryPoints == {"loss_RL_model", "fit_with_multiple_initial_values"}

SeqNames == {"opt1Rewarded", "magOpt1", "magOpt2", "choice1"}

\* the length of an elementwise operation on arrays of the lengths a and b,
\* by the broadcasting rule: the lengths are equal or one of them is 1;
\* -1 when the arrays do not fit
broadcast(a, b) ==
  IF a = b THEN a ELSE IF a = 1 THEN b ELSE IF b = 1 THEN a ELSE -1

\* the shapes with the length of one more array
WithShape(sh, name, len) ==
  [k \in DOMAIN sh \cup {name} |-> IF k = name THEN len ELSE sh[k]]

\* len(x[:-1])
AllButLast(len) == IF len = 0 THEN 0 ELSE len - 1

ShapeInit ==
  /\ entry \in EntryPoints
  /\ lens \in [SeqNames -> 0 .. MaxLen]
  /\ shapes = << >>
  /\ spc = IF entry = "loss_RL_model" THEN "scan" ELSE "tile"
  /\ evals = 0
  /\ OptIdle
  /\ LossIdle
  /\ FitIdle
  /\ RecIdle
  /\ DiffIdle

\* fit_with_multiple_initial_values: each sequence is tiled on its own to
\* (nInits, len) and the vmapped fit_model hands lane i its row of each, so
\* that loss_fun calls loss_RL_model with sequences of the lengths given
tile_data ==
  /\ spc = "tile"
  /\ spc' = "scan"
  /\ UNCHANGED <<entry, lens, shapes, evals>>
  /\ UNCHANGED <<optVars, lossVars, fitVars, recVars, diffVars>>

\* nTrials = len(opt1Rewarded) and the scan over arange(nTrials): the body
\* is traced once, and opt1Rewarded[t] on an array without elements raises
scan_trials ==
  /\ spc = "scan"
  /\ IF lens["opt1Rewarded"] = 0
       THEN /\ spc' = "error"
            /\ UNCHANGED shapes
       ELSE /\ spc' = "concatenate"
            /\ shapes' = WithShape(shapes, "scanOut", lens["opt1Rewarded"])
  /\ UNCHANGED <<entry, lens, evals>>
  /\ UNCHANGED <<optVars, lossVars, fitVars, recVars, diffVars>>

\* probOpt1 = jnp.concatenate([jnp.array([startingProb]), probOpt1[:-1]])
concatenate_start ==
  /\ spc = "concatenate"
  /\ shapes' = WithShape(shapes, "probOpt1", 1 + AllButLast(shapes["scanOut"]))
  /\ spc' = "utility1"
  /\ UNCHANGED <<entry, lens, evals>>
  /\ UNCHANGED <<optVars, lossVars, fitVars, recVars, diffVars>>

\* an elementwise operation on arrays of the lengths a and b, giving the
\* array name; the call goes on at the line next
elementwise(a, b, name, next) ==
  /\ IF broadcast(a, b) = -1
       THEN /\ spc' = "error"
            /\ UNCHANGED shapes
       ELSE /\ spc' = next
            /\ shapes' = WithShape(shapes, name, broadcast(a, b))
  /\ UNCHANGED <<entry, lens, evals>>
  /\ UNCHANGED <<optVars, lossVars, fitVars, recVars, diffVars>>

\* utility1 = utility_function(magOpt1, probOpt1): mag * prob
utility1 ==
  /\ spc = "utility1"
  /\ elementwise(lens["magOpt1"], shapes["probOpt1"], "utility1", "utility2")

\* utility2 = utility_function(magOpt2, 1 - probOpt1)
utility2 ==
  /\ spc = "utility2"
  /\ elementwise(lens["magOpt2"], shapes["probOpt1"], "utility2", "logits")

\* choice1Logits = beta * (utility1 - utility2)
choice1Logits ==
  /\ spc = "logits"
  /\ elementwise(shapes["utility1"], shapes["utility2"], "choice1Logits", "loss")

\* loss = optax.sigmoid_binary_cross_entropy(choice1Logits, choice1).mean():
\* the last line of the trace; the function is then run and returns a loss
\* (to the caller, or to the optimizer of the fit, which goes on from there)
loss_mean ==
  /\ spc = "loss"
  /\ IF broadcast(shapes["choice1Logits"], lens["choice1"]) = -1
       THEN /\ spc' = "error"
            /\ UNCHANGED <<shapes, evals>>
       ELSE /\ spc' = "returned"
            /\ shapes' = WithShape(shapes, "loss",
                                   broadcast(shapes["choice1Logits"], lens["choice1"]))
            /\ evals' = evals + 1
  /\ UNCHANGED <<entry, lens>>
  /\ UNCHANGED <<optVars, lossVars, fitVars, recVars, diffVars>>

ShapeNext ==
  \/ tile_data
  \/ scan_trials
  \/ concatenate_start
  \/ utility1
  \/ utility2
  \/ choice1Logits
  \/ loss_mean

SpecShape == ShapeInit /\ [][ShapeNext]_vars

----------------------------------------------------------------------------
\* The recovery harnesses.  generate_schedule, simulate_RL_model and the
\* random generator are the caller's: a row of the data matrices records
\* which call of generate_schedule filled it, which parameters it was
\* simulated with and whether its choices were drawn.

\* what fit_with_multiple_initial_values returns for the batch d alone, field
\* by field: a function of d (and of the variant) only
fit_of(fm, d) == [f \in FieldsOf(fm) |-> [field |-> f, fitOf |-> d]]

\* fit_multiple_participants(stack, nInits, fit_model): for every field the
\* array of the results of the subjects, subject s at index s
fit_multiple_participants(stack, fm) ==
  [f \in FieldsOf(fm) |-> [s \in 1 .. Len(stack) |-> fit_of(fm, vmap_slice(stack, s))[f]]]

\* a row of a matrix made by np.zeros
ZeroRow == [schedule |-> 0, simulatedWith |-> << >>, choices |-> FALSE]

----------------------------------------------------------------------------
\* run_paramterer_recovery

Ranges == UNION { [1 .. n -> { Num(v) : v \in 1 .. MaxGrid }] : n \in 1 .. MaxGrid }

nSimulatedSubjects == Len(simulatedAlphaRange) * Len(simulatedBetaRange)

\* mutant: the loop stops one iteration early
range_done_early(idx, rng) == idx >= Len(rng)

\* for idx in range(len(rng)): the loop is over once idx (counted from 1)
\* has passed the last index
range_done(idx, rng) == idx > Len(rng)

\* mutant: the counter is not increased
next_counter_stuck(c) == c

\* counter += 1
next_counter(c) == c + 1

RecInit ==
  /\ simulatedAlphaRange \in Ranges
  /\ simulatedBetaRange \in Ranges
  /\ alphaIdx = 1
  /\ betaIdx = 1
  /\ counter = 0
  /\ dataMat = [s \in 1 .. nSimulatedSubjects |-> ZeroRow]
  /\ recoveryData = [s \in 1 .. nSimulatedSubjects |->
                       [simulatedAlpha |-> Num(0), simulatedBeta |-> Num(0),
                        recoveredAlpha |-> Num(0), recoveredBeta |-> Num(0)]]
  /\ recParams = << >>
  /\ fitCalls = 0
  /\ nSchedules = 0
  /\ rpc = "schedule"
  /\ OptIdle
  /\ LossIdle
  /\ FitIdle
  /\ ShapeIdle
  /\ DiffIdle

\* opt1RewardedMat[counter,:], magOpt1Mat[counter,:], magOpt2Mat[counter,:] =
\* generate_schedule(trueProbability)
generate_schedule ==
  /\ rpc = "schedule"
  /\ nSchedules' = nSchedules + 1
  /\ dataMat' = [dataMat EXCEPT ![counter + 1].schedule = nSchedules + 1]
  /\ rpc' = "simulate"
  /\ UNCHANGED <<simulatedAlphaRange, simulatedBetaRange, alphaIdx, betaIdx, counter,
                 recoveryData, recParams, fitCalls>>
  /\ UNCHANGED <<optVars, lossVars, fitVars, shapeVars, diffVars>>

\* simulate_RL_model(..., simulatedAlphaRange[alpha], simulatedBetaRange[beta])
\* and choice1Mat[counter,:] = (choiceProb1 > rng.random(...)).astype(int)
simulate_RL_model ==
  /\ rpc = "simulate"
  /\ dataMat' = [dataMat EXCEPT
                   ![counter + 1].simulatedWith =
                      [alpha |-> simulatedAlphaRange[alphaIdx],
                       beta |-> simulatedBetaRange[betaIdx]],
                   ![counter + 1].choices = TRUE]
  /\ rpc' = "save"
  /\ UNCHANGED <<simulatedAlphaRange, simulatedBetaRange, alphaIdx, betaIdx, counter,
                 recoveryData, recParams, fitCalls, nSchedules>>
  /\ UNCHANGED <<optVars, lossVars, fitVars, shapeVars, diffVars>>

\* the simulated parameters are saved in row counter, the counter is
\* increased, and the two loops go on to the next grid point
save_simulated ==
  /\ rpc = "save"
  /\ recoveryData' = [recoveryData EXCEPT
                        ![counter + 1].simulatedAlpha = simulatedAlphaRange[alphaIdx],
                        ![counter + 1].simulatedBeta = simulatedBetaRange[betaIdx]]
  /\ counter' = next_counter(counter)
  /\ IF ~range_done(betaIdx + 1, simulatedBetaRange)
       THEN /\ betaIdx' = betaIdx + 1
            /\ alphaIdx' = alphaIdx
            /\ rpc' = "schedule"
       ELSE /\ betaIdx' = 1
            /\ alphaIdx' = alphaIdx + 1
            /\ rpc' = IF range_done(alphaIdx + 1, simulatedAlphaRange)
                        THEN "fit" ELSE "schedule"
  /\ UNCHANGED <<simulatedAlphaRange, simulatedBetaRange, dataMat, recParams,
                 fitCalls, nSchedules>>
  /\ UNCHANGED <<optVars, lossVars, fitVars, shapeVars, diffVars>>

\* params = fit_multiple_participants((opt1RewardedMat, ...), nInits = nInits,
\* fit_model = fit_model_same_alpha): the call
call_fit ==
  /\ rpc = "fit"
  /\ fitCalls' = fitCalls + 1
  /\ rpc' = "fitting"
  /\ UNCHANGED <<simulatedAlphaRange, simulatedBetaRange, alphaIdx, betaIdx, counter,
                 dataMat, recoveryData, recParams, nSchedules>>
  /\ UNCHANGED <<optVars, lossVars, fitVars, shapeVars, diffVars>>

\* the call returns
fit_returns ==
  /\ rpc = "fitting"
  /\ recParams' = fit_multiple_participants(dataMat, "fit_model_same_alpha")
  /\ rpc' = "write"
  /\ UNCHANGED <<simulatedAlphaRange, simulatedBetaRange, alphaIdx, betaIdx, counter,
                 dataMat, recoveryData, fitCalls, nSchedules>>
  /\ UNCHANGED <<optVars, lossVars, fitVars, shapeVars, diffVars>>

\* recoveryData["recoveredAlpha"] = params["alpha"];
\* recoveryData["recoveredBeta"] = params["beta"]; return recoveryData
write_recovered ==
  /\ rpc = "write"
  /\ recoveryData' = [s \in DOMAIN recoveryData |->
                        [recoveryData[s] EXCEPT
                           !.recoveredAlpha = recParams["alpha"][s],
                           !.recoveredBeta = recParams["beta"][s]]]
  /\ rpc' = "done"
  /\ UNCHANGED <<simulatedAlphaRange, simulatedBetaRange, alphaIdx, betaIdx, counter,
                 dataMat, recParams, fitCalls, nSchedules>>
  /\ UNCHANGED <<optVars, lossVars, fitVars, shapeVars, diffVars>>

RecNext ==
  \/ generate_schedule
  \/ simulate_RL_model
  \/ save_simulated
  \/ call_fit
  \/ fit_returns
  \/ write_recovered

SpecRecovery == RecInit /\ [][RecNext]_vars

----------------------------------------------------------------------------
\* run_paramterer_recovery_with_difference

\* the ground truth of a subject: stableAlphas[p], volatileAlphas[p], betas[p]
Truths ==
  { [stableAlpha |-> Num(1), volatileAlpha |-> Num(SCALE), beta |-> Num(1)],
    [stableAlpha |-> Num(SCALE), volatileAlpha |-> Num(1), beta |-> Num(SCALE)] }

Columns == {"alpha stable", "alpha volatile", "inverse temperature"}

\* a row of a matrix made by np.zeros((nSimulatedSubjects, width))
ZeroRowOf(width) ==
  [width |-> width, schedule |-> 0, scheduleLen |-> 0,
   simulatedWith |-> << >>, choices |-> 0]

\* mat[p,:] = x for a row of the given width and an x of length len: numpy
\* takes an x of the same length, and repeats an x of length 1
fits_row(width, len) == len = width \/ len = 1

\* the row p of a block of matrices after generate_schedule(trueProbability)
\* of len trials (the k-th schedule of the run), simulate_RL_model on the
\* row with (alpha, beta), and the choices, one per element of the row
SimulatedRow(row, k, len, a, b) ==
  [row EXCEPT !.schedule = k, !.scheduleLen = len,
              !.simulatedWith = [alpha |-> a, beta |-> b],
              !.choices = row.width]

\* fittedParameters["alpha stable"] = params["alphaStable"], ["alpha
\* volatile"] = params["alphaVolatile"], ["inverse temperature"] =
\* params["beta"]: the row q of the table
diff_columns(fitted, q) ==
  [c \in Columns |->
     IF c = "alpha stable" THEN fitted["alphaStable"][q]
     ELSE IF c = "alpha volatile" THEN fitted["alphaVolatile"][q]
     ELSE fitted["beta"][q]]

\* the stack handed to fit_multiple_participants: the four stable and the
\* four volatile matrices, subject q at index q of each
DiffStack == [q \in DOMAIN stableMat |-> [stable |-> stableMat[q], volatile |-> volatileMat[q]]]

DiffInit ==
  /\ truths \in UNION { [1 .. n -> Truths] : n \in 1 .. MaxSubjects }
  /\ lenStable \in 1 .. MaxSched
  /\ lenVolatile \in 1 .. MaxSched
  /\ subj = 1
  /\ stableMat = [q \in 1 .. Len(truths) |-> ZeroRowOf(lenStable)]
  /\ volatileMat = [q \in 1 .. Len(truths) |-> ZeroRowOf(lenStable)]
  /\ fittedParameters = [q \in 1 .. Len(truths) |-> [c \in Columns |-> Num(0)]]
  /\ dpc = "loop"
  /\ OptIdle
  /\ LossIdle
  /\ FitIdle
  /\ ShapeIdle
  /\ RecIdle

\* one pass of the loop over the subjects, for subject subj: the two
\* schedules, the two simulations and the two sets of choices.  The volatile
\* schedule is written to a row as wide as the stable schedule: a schedule
\* that does not fit the row raises ValueError, after the stable row is written
simulate_subject ==
  /\ dpc = "loop"
  /\ IF fits_row(volatileMat[subj].width, lenVolatile)
       THEN /\ stableMat' = [stableMat EXCEPT ![subj] =
                 SimulatedRow(@, 2 * subj - 1, lenStable,
                              truths[subj].stableAlpha, truths[subj].beta)]
            /\ volatileMat' = [volatileMat EXCEPT ![subj] =
                 SimulatedRow(@, 2 * subj, lenVolatile,
                              truths[subj].volatileAlpha, truths[subj].beta)]
            /\ subj' = subj + 1
            /\ dpc' = IF range_done(subj + 1, truths) THEN "fit" ELSE "loop"
       ELSE /\ stableMat' = [stableMat EXCEPT ![subj].schedule = 2 * subj - 1,
                                             ![subj].scheduleLen = lenStable]
            /\ dpc' = "error"
            /\ UNCHANGED <<volatileMat, subj>>
  /\ UNCHANGED <<truths, lenStable, lenVolatile, fittedParameters>>
  /\ UNCHANGED <<optVars, lossVars, fitVars, shapeVars, recVars>>

\* params = fit_multiple_participants(..., fit_model =
\* fit_model_alpha_difference), the three columns are assigned from it and
\* the table is returned
fit_difference ==
  /\ dpc = "fit"
  /\ fittedParameters' =
       [q \in DOMAIN fittedParameters |->
          diff_columns(fit_multiple_participants(DiffStack, "fit_model_alpha_difference"), q)]
  /\ dpc' = "done"
  /\ UNCHANGED <<truths, lenStable, lenVolatile, subj, stableMat, volatileMat>>
  /\ UNCHANGED <<optVars, lossVars, fitVars, shapeVars, recVars>>

DiffNext == simulate_subject \/ fit_difference

SpecDiff == DiffInit /\ [][DiffNext]_vars

----------------------------------------------------------------------------
\* Claims about run_opt (checked under SpecOpt)

\* C1 as stated: from an initialization inside the bounds, every alpha and
\* beta field is inside its bound interval at every point of the loop.
C1_AlwaysInsideBounds ==
  initInside => \A name \in DOMAIN params : InsideBounds(params, name)

\* C1, amended: from an initialization inside the bounds, every alpha and
\* beta field is at every point of the loop either inside its bound interval
\* or NaN (jnp.clip hands a NaN through); it is never a number, or an
\* infinity, outside the interval.
C1_InsideBoundsOrNaN ==
  initInside =>
    \A name \in DOMAIN params :
      IsNaN(params[name]) \/ InsideBounds(params, name)

\* run_opt returned after two or more steps, the last projection having moved
\* a field back into its interval
C1_Witness ==
  /\ pc = "done"
  /\ initInside
  /\ steps >= 2
  /\ clipped
  /\ \A name \in DOMAIN params : InsideBounds(params, name)

\* the stop condition of the specification: iteration is not 0 and
\* (iteration >= max_iter or ||gradient|| < tol)
StopAsStated(st) ==
  /\ st.count # 0
  /\ \/ st.count >= max_iter
     \/ FLt(NormSq(st.grad), Num(tol * tol))

\* C2 as stated: a move of the loop is the return exactly when the stated
\* stop condition holds, and is another step otherwise.
C2_StopsExactlyWhenStated ==
  [][pc = "loop" => ((pc' = "done") <=> StopAsStated(state))]_vars

\* C2, amended: a move of the loop is the return exactly when the iteration
\* count is not 0 and (count >= max_iter, or the gradient norm is < tol, or
\* the gradient norm is NaN); otherwise it is another step.
C2_StopsExactlyWhenNotContinuing ==
  [][pc = "loop" =>
       ((pc' = "done") <=>
          /\ state.count # 0
          /\ \/ state.count >= max_iter
             \/ FLt(NormSq(state.grad), Num(tol * tol))
             \/ IsNaN(NormSq(state.grad)))]_vars

\* run_opt returned before max_iter because the stored gradient is NaN
C2_Witness ==
  /\ pc = "done"
  /\ state.count # 0
  /\ state.count < max_iter
  /\ IsNaN(NormSq(state.grad))

\* C3: run_opt returns only after at least one step, and with max_iter = 0
\* after exactly one step (the gradient norm of the initial state, 0, is
\* below every positive tol).
C3_AtLeastOneStep ==
  pc = "done" => steps >= 1 /\ (max_iter = 0 => steps = 1)

\* run_opt with max_iter = 0 and a positive tol returned after one step
C3_Witness ==
  /\ pc = "done"
  /\ max_iter = 0
  /\ tol > 0
  /\ steps = 1

----------------------------------------------------------------------------
\* Claims about the belief trajectory (checked under SpecLoss)

\* the update of a belief b by the outcome of (1-based) trial t of call r
Updated(b, t, r) == RAdd(b, RMul(alpha, RSub(Rat(opt1Rewarded[r][t], 1), b)))

\* C6 as stated: the trajectory has length T, starts with p0, and
\* probOpt1[t] = belief[t-1] for t >= 1 (0-based), where
\* belief[t] = belief[t-1] + alpha * (rewarded1[t-1] - belief[t-1]).
\* The first equation fixes belief[k] = probOpt1[k+1]; the recurrence is
\* stated on these values, so no choice of a first belief is involved.
C6_TrajectoryAsStated ==
  \A r \in Runs :
    (lpc[r] = "done" /\ nTrials(r) >= 1) =>
      LET belief(k) == probOpt1[r][k + 2]
          rewarded1(k) == k + 1
      IN /\ Len(probOpt1[r]) = nTrials(r)
         /\ probOpt1[r][1] = startingProb
         /\ \A t \in 1 .. nTrials(r) - 2 :
              belief(t) = Updated(belief(t - 1), rewarded1(t - 1), r)

\* C6, amended: the trajectory has length T, probOpt1[0] = p0, and for every
\* t >= 1 (0-based)
\* probOpt1[t] = probOpt1[t-1] + alpha * (rewarded1[t-1] - probOpt1[t-1]):
\* the belief entering trial t is the belief entering trial t-1 updated by
\* the outcome of trial t-1.
C6_TrajectoryRecurrence ==
  \A r \in Runs :
    (lpc[r] = "done" /\ nTrials(r) >= 1) =>
      /\ Len(probOpt1[r]) = nTrials(r)
      /\ probOpt1[r][1] = startingProb
      /\ \A k \in 2 .. nTrials(r) :
           probOpt1[r][k] = Updated(probOpt1[r][k - 1], k - 1, r)

\* a trajectory of three or more trials is built, with a learning rate
\* strictly between 0 and 1 and outcomes that differ between the first two trials
C6_Witness ==
  /\ lpc[1] = "done"
  /\ nTrials(1) >= 3
  /\ alpha \notin {Rat(0, 1), Rat(1, 1)}
  /\ RLe(alpha, Rat(1, 1))
  /\ opt1Rewarded[1][1] # opt1Rewarded[1][2]

\* C7: when two outcome sequences agree on the trials before trial t, the
\* belief entering trial t is the same in both trajectories, whatever the
\* sequences hold at trial t and later.
C7_NoLookahead ==
  (lpc[1] = "done" /\ lpc[2] = "done") =>
    \A t \in 1 .. nTrials(1) :
      SubSeq(opt1Rewarded[1], 1, t - 1) = SubSeq(opt1Rewarded[2], 1, t - 1)
        => probOpt1[1][t] = probOpt1[2][t]

\* two trajectories are built from sequences that differ in the last trial
\* only, with a learning rate that is not 0
C7_Witness ==
  /\ lpc[1] = "done"
  /\ lpc[2] = "done"
  /\ nTrials(1) >= 2
  /\ alpha # Rat(0, 1)
  /\ SubSeq(opt1Rewarded[1], 1, nTrials(1) - 1) = SubSeq(opt1Rewarded[2], 1, nTrials(1) - 1)
  /\ opt1Rewarded[1][nTrials(1)] # opt1Rewarded[2][nTrials(1)]
  /\ probOpt1[1] = probOpt1[2]

\* C8: with alpha in [0, 1] every element of the belief trajectory (and of
\* the scan output it is built from) lies in [0, 1].
C8_BeliefInUnitInterval ==
  (RLe(Rat(0, 1), alpha) /\ RLe(alpha, Rat(1, 1))) =>
    \A r \in Runs :
      /\ \A k \in 1 .. Len(probOpt1[r]) :
           RLe(Rat(0, 1), probOpt1[r][k]) /\ RLe(probOpt1[r][k], Rat(1, 1))
      /\ \A k \in 1 .. Len(scanOut[r]) :
           RLe(Rat(0, 1), scanOut[r][k]) /\ RLe(scanOut[r][k], Rat(1, 1))

\* a trajectory for alpha strictly between 0 and 1 is built whose last
\* element is strictly between 0 and 1 and not the starting probability
C8_Witness ==
  /\ lpc[1] = "done"
  /\ nTrials(1) >= 3
  /\ alpha \notin {Rat(0, 1), Rat(1, 1)}
  /\ RLe(alpha, Rat(1, 1))
  /\ probOpt1[1][nTrials(1)] \notin {Rat(0, 1), Rat(1, 1), startingProb}

----------------------------------------------------------------------------
\* Claims about fit_with_multiple_initial_values (checked under SpecMulti)

Returned == bestParams # << >>

C5_NoFiniteResultWhenAllFail ==
  (Returned /\ \A i \in DOMAIN laneOut : ~IsFinite(laneOut[i].loss)) =>
    \E f \in DOMAIN bestParams : ~IsFinite(bestParams[f])

\* C9: with nInits = 1 the returned parameters are exactly the parameters
\* that fit_model returns for the same data with PRNGKey(0), for either
\* variant.
C9_SingleInitIsSeedZero ==
  (nInits = 1 /\ Returned /\ direct # << >>) => bestParams = direct.params

\* both calls returned for nInits = 1, the single lane ending with a NaN
\* loss (nanargmin is -1 there and picks the last, only, lane)
C9_Witness ==
  /\ nInits = 1
  /\ Returned
  /\ direct # << >>
  /\ IsNaN(direct.loss)
  /\ bestParams = direct.params

----------------------------------------------------------------------------
\* Claims about fit_multiple_participants (checked under SpecPop)

\* C10: the result has one parameter set per subject, in the order of the
\* stack, and the set at index s is what fit_with_multiple_initial_values
\* returns for the data of subject s alone, whatever the other subjects are.
C10_PerSubjectResult ==
  /\ DOMAIN popOut \subseteq DOMAIN popData
  /\ \A s \in DOMAIN popOut :
       popData[s] \in DOMAIN solo => popOut[s] = solo[popData[s]]

\* two subjects with different data got different results, each the result
\* of its own data alone
C10_Witness ==
  /\ DOMAIN popOut = DOMAIN popData
  /\ DOMAIN solo = {popData[1], popData[2]}
  /\ popData[1] # popData[2]
  /\ popOut[1] # popOut[2]
  /\ popOut[1] = solo[popData[1]]
  /\ popOut[2] = solo[popData[2]]

\* C11: subjects of one stack that have the same TrialBatch get the same
\* parameter vector (so a stack of identical subjects gets one vector for all).
C11_IdenticalSubjectsAgree ==
  \A s, t \in DOMAIN popOut : popData[s] = popData[t] => popOut[s] = popOut[t]

\* two subjects with the same data, fitted from two or more initializations
\* whose lanes ended differently, got the same parameters
C11_Witness ==
  /\ nInits >= 2
  /\ DOMAIN popOut = DOMAIN popData
  /\ popData[1] = popData[2]
  /\ popOut[1] = popOut[2]
  /\ fitMemo[<<popData[1], PRNGKey(0)>>] # fitMemo[<<popData[1], PRNGKey(1)>>]

\* every initialization lane of subject s ended with a non-finite loss
Failed(s) ==
  \A i \in 1 .. nInits : ~IsFinite(fitMemo[<<popData[s], PRNGKey(i - 1)>>].loss)

\* C14: a subject whose lanes all ended with a non-finite loss does not stop
\* the other subjects (their lanes can still finish, nothing is raised), and
\* the output tells the failed subjects from the others: the entry of a
\* failed subject differs from the entry of every subject that did not fail.
C14_FailedSubjectsIdentified ==
  /\ valid_selector(fit_model) => raised = ""
  /\ \A t \in DOMAIN popData \ DOMAIN popOut :
       valid_selector(fit_model) => ENABLED fit_subject(t)
  /\ \A s, t \in DOMAIN popOut :
       (Failed(s) /\ ~Failed(t)) => popOut[s] # popOut[t]

\* C20 as stated: lane i of a subject uses seed i (counting from 0), and no
\* two lanes of the population fit, of the same subject or of different
\* subjects, use the same seed.
C20_AllLaneSeedsDistinct ==
  /\ \A k \in DOMAIN laneRngs : laneRngs[k] = PRNGKey(k[2] - 1)
  /\ \A k, l \in DOMAIN laneRngs : k # l => laneRngs[k] # laneRngs[l]

\* C20, amended: lane i of a subject uses seed i (counting from 0), so the
\* nInits lanes of one subject use the seeds 0 .. nInits-1, one each, and no
\* two lanes of the same subject share a seed; lanes of different subjects
\* with the same initialization index use the same seed.
C20_SeedsDistinctWithinSubject ==
  /\ \A k \in DOMAIN laneRngs : laneRngs[k] = PRNGKey(k[2] - 1)
  /\ \A k, l \in DOMAIN laneRngs :
       (k[1] = l[1] /\ k # l) => laneRngs[k] # laneRngs[l]
  /\ \A k, l \in DOMAIN laneRngs : k[2] = l[2] => laneRngs[k] = laneRngs[l]

\* two subjects were fitted from two or more initializations each: the first
\* lanes of both used seed 0, the second lanes of both seed 1
C20_Witness ==
  /\ nInits >= 2
  /\ DOMAIN popOut = DOMAIN popData
  /\ laneRngs[<<1, 1>>] = PRNGKey(0)
  /\ laneRngs[<<2, 1>>] = PRNGKey(0)
  /\ laneRngs[<<1, 2>>] = PRNGKey(1)
  /\ laneRngs[<<2, 2>>] = PRNGKey(1)

----------------------------------------------------------------------------
\* Claims about both entry points (checked under SpecFit)

\* C12: with a fit_model that is neither variant, no lane is ever started (no
\* call of the fit model, no seed handed out, no lane output, no result), the
\* call can only raise, and it raises ValueError; a valid selector never
\* raises.
C12_InvalidSelectorFailsFast ==
  /\ fit_model \notin Variants =>
       /\ fitMemo = << >>
       /\ laneRngs = << >>
       /\ laneOut = << >>
       /\ finished = {}
       /\ bestParams = << >>
       /\ popOut = << >>
       /\ raised \in {"", "ValueError"}
       /\ raised = "" => ENABLED raise_ValueError
  /\ fit_model \in Variants => raised = ""

\* fit_multiple_participants was called with another callable and raised
C12_Witness ==
  /\ fit_model = "other"
  /\ popData # << >>
  /\ raised = "ValueError"
  /\ fitMemo = << >>

\* the parameters get_params selects from the lanes of batch d, each lane
\* taken at its own index: lane i is the fit of d with PRNGKey(i - 1)
SelectedFor(d) ==
  LET ref == [i \in 1 .. nInits |-> fitMemo[<<d, PRNGKey(i - 1)>>]]
  IN get_params(fit_model, StackParams(fit_model, ref), StackLoss(ref))

\* C19: whatever the order in which the lanes finished, the parameters
\* returned are the ones the min-loss reduction selects from the lanes taken
\* by index: the order of execution has no influence on the result, for the
\* initialization lanes and for the subject lanes.
C19_OrderIndependent ==
  /\ Returned => bestParams = SelectedFor(data)
  /\ \A s \in DOMAIN popOut : popOut[s] = SelectedFor(popData[s])

\* the lanes did not finish in the order of their index, the first two ended
\* with different parameters and losses, and the result is the one of the
\* lane with the smaller loss
C19_Witness ==
  /\ Returned
  /\ ~ascending
  /\ nInits >= 2
  /\ laneOut[1].params # laneOut[2].params
  /\ IsFinite(laneOut[1].loss)
  /\ FLt(laneOut[1].loss, laneOut[2].loss)
  /\ bestParams = laneOut[1].params

----------------------------------------------------------------------------
\* Claims about fit_model (checked under SpecMulti)

----------------------------------------------------------------------------
\* Claims about the validation of a TrialBatch (checked under SpecShape)

\* C13: a batch that is empty, or whose four sequences do not all have the
\* same length, makes the call fail: no loss value is ever computed for it
\* and the call does not return.
C13_InvalidBatchFails ==
  (spc # "idle" /\
     (\/ lens["opt1Rewarded"] = 0
      \/ \E a, b \in SeqNames : lens[a] # lens[b]))
    => (spc # "returned" /\ evals = 0)

----------------------------------------------------------------------------
\* Claims about run_paramterer_recovery (checked under SpecRecovery)

\* the row of the grid point (a, b), the two loops being nested with beta inside
RowOf(a, b) == (a - 1) * Len(simulatedBetaRange) + b

\* C15: the table returned has len(simulatedAlphaRange) *
\* len(simulatedBetaRange) rows; the row of grid point (a, b) holds exactly
\* simulatedAlphaRange[a] and simulatedBetaRange[b], the data of that row were
\* simulated with these two values on a schedule of their own, and the
\* recovered values of the row are the fit of the data of that row.
C15_RecoveryRowsAligned ==
  rpc = "done" =>
    /\ Len(recoveryData) = Len(simulatedAlphaRange) * Len(simulatedBetaRange)
    /\ Len(dataMat) = Len(recoveryData)
    /\ \A a \in 1 .. Len(simulatedAlphaRange), b \in 1 .. Len(simulatedBetaRange) :
         LET row == recoveryData[RowOf(a, b)]
             batch == dataMat[RowOf(a, b)]
         IN /\ row.simulatedAlpha = simulatedAlphaRange[a]
            /\ row.simulatedBeta = simulatedBetaRange[b]
            /\ batch.simulatedWith = [alpha |-> simulatedAlphaRange[a],
                                      beta |-> simulatedBetaRange[b]]
            /\ batch.schedule # 0
            /\ batch.choices
            /\ row.recoveredAlpha = fit_of("fit_model_same_alpha", batch)["alpha"]
            /\ row.recoveredBeta = fit_of("fit_model_same_alpha", batch)["beta"]
    /\ \A s, t \in DOMAIN dataMat : s # t => dataMat[s].schedule # dataMat[t].schedule

\* the table of a grid of two different alphas by two different betas is returned
C15_Witness ==
  /\ rpc = "done"
  /\ Len(simulatedAlphaRange) >= 2
  /\ Len(simulatedBetaRange) >= 2
  /\ simulatedAlphaRange[1] # simulatedAlphaRange[2]
  /\ simulatedBetaRange[1] # simulatedBetaRange[2]
  /\ recoveryData[2].simulatedBeta = simulatedBetaRange[2]
  /\ recoveryData[2].recoveredBeta = fit_of("fit_model_same_alpha", dataMat[2])["beta"]

\* every grid point has its schedule, its simulation and its choices
AllSimulated ==
  /\ counter = nSimulatedSubjects
  /\ \A s \in DOMAIN dataMat :
       /\ dataMat[s].schedule # 0
       /\ dataMat[s].simulatedWith # << >>
       /\ dataMat[s].choices

\* C16: fit_multiple_participants is called at most once at any point and
\* exactly once in a finished run, with the shared-alpha variant; when it is
\* called every grid point has been given its schedule, simulation and
\* choices; and a recovered column holds something only once the call has
\* returned.
C16_FitOnceAfterSimulation ==
  /\ fitCalls \in {0, 1}
  /\ rpc = "done" => fitCalls = 1
  /\ fitCalls = 1 => AllSimulated
  /\ recParams # << >> => (fitCalls = 1 /\ DOMAIN recParams = FieldsOf("fit_model_same_alpha"))
  /\ \A s \in DOMAIN recoveryData :
       (recoveryData[s].recoveredAlpha # Num(0) \/ recoveryData[s].recoveredBeta # Num(0))
         => (recParams # << >> /\ rpc = "done")

\* a run over two or more grid points is finished, after one call of the fit
C16_Witness ==
  /\ rpc = "done"
  /\ fitCalls = 1
  /\ nSimulatedSubjects >= 2
  /\ nSchedules = nSimulatedSubjects
  /\ recoveryData[nSimulatedSubjects].recoveredAlpha # Num(0)

----------------------------------------------------------------------------
\* Claims about run_paramterer_recovery_with_difference (checked under SpecDiff)

\* the recovered values of row q are the fit of the data of subject q, and
\* these data were simulated with the ground truth of subject q
RecoveredOf(q) ==
  /\ stableMat[q].simulatedWith =
       [alpha |-> truths[q].stableAlpha, beta |-> truths[q].beta]
  /\ volatileMat[q].simulatedWith =
       [alpha |-> truths[q].volatileAlpha, beta |-> truths[q].beta]
  /\ fittedParameters[q]["alpha stable"] =
       fit_of("fit_model_alpha_difference", DiffStack[q])["alphaStable"]
  /\ fittedParameters[q]["alpha volatile"] =
       fit_of("fit_model_alpha_difference", DiffStack[q])["alphaVolatile"]
  /\ fittedParameters[q]["inverse temperature"] =
       fit_of("fit_model_alpha_difference", DiffStack[q])["beta"]

\* C17: the table returned has one row per subject, which holds
\* the recovered alphaStable, alphaVolatile and beta of the subject and, in
\* columns of their own, the stableAlpha, volatileAlpha and beta the subject
\* was simulated with.
C17_TableHoldsTruthAndRecovered ==
  dpc = "done" =>
    /\ Len(fittedParameters) = Len(truths)
    /\ \A q \in DOMAIN fittedParameters :
         /\ RecoveredOf(q)
         /\ \E cs, cv, cb \in DOMAIN fittedParameters[q] \ Columns :
              /\ fittedParameters[q][cs] = truths[q].stableAlpha
              /\ fittedParameters[q][cv] = truths[q].volatileAlpha
              /\ fittedParameters[q][cb] = truths[q].beta

----------------------------------------------------------------------------
\* Claims about the projection on any parameter structure (checked under
\* SpecProject)

\* the parameters before the projection of a step that applied updates
Unprojected(updates) == apply_updates(params, updates)

\* the transition is an execution of step
IsStep == pc = "loop" /\ steps' = steps + 1

\* C21: in every step every field whose name contains "alpha" is clipped to
\* [alphaMin, alphaMax] and every field whose name contains "beta" is
\* clipped to [betaMin, betaMax].
C21_EveryNameClippedToItsPair ==
  [][IsStep =>
       \E updates \in [DOMAIN params -> UpdVals] :
         \A name \in DOMAIN params :
           /\ NameHasAlpha(name) =>
                params'[name] = clip(Unprojected(updates)[name],
                                     Num(paramsClip.alphaMin), Num(paramsClip.alphaMax))
           /\ NameHasBeta(name) =>
                params'[name] = clip(Unprojected(updates)[name],
                                     Num(paramsClip.betaMin), Num(paramsClip.betaMax))]_vars

\* C21, amended: in every step, for every field, the name tested is the
\* dotted path of the field; a field whose path contains "alpha" is clipped
\* to [alphaMin, alphaMax]; a field whose path contains "beta" and not
\* "alpha" is clipped to [betaMin, betaMax]; every other field is left as
\* the update made it.
C21_ClippedByPathAlphaFirst ==
  [][IsStep =>
       \E updates \in [DOMAIN params -> UpdVals] :
         \A name \in DOMAIN params :
           /\ InName("alpha", name) =>
                params'[name] = clip(Unprojected(updates)[name],
                                     Num(paramsClip.alphaMin), Num(paramsClip.alphaMax))
           /\ (InName("beta", name) /\ ~InName("alpha", name)) =>
                params'[name] = clip(Unprojected(updates)[name],
                                     Num(paramsClip.betaMin), Num(paramsClip.betaMax))
           /\ (~InName("beta", name) /\ ~InName("alpha", name)) =>
                params'[name] = Unprojected(updates)[name]]_vars

\* a step has moved a field named with both "beta" and "alpha" to the upper
\* alpha bound, outside the beta interval
C21_Witness ==
  /\ steps >= 1
  /\ clipped
  /\ "beta_alpha" \in DOMAIN params
  /\ params["beta_alpha"] = Num(paramsClip.alphaMax)
  /\ paramsClip.alphaMax > paramsClip.betaMax

----------------------------------------------------------------------------
\* Claims about the termination of run_opt (checked under SpecOptLive)

\* max(1, max_iter)
StepLimit == IF max_iter > 1 THEN max_iter ELSE 1

\* C22: every run of run_opt terminates; each step raises the iteration
\* count by exactly one, and the loop ends after at most max(1, max_iter)
\* steps whatever the gradient norms are.
C22_Terminates ==
  /\ [][IsStep => state'.count = state.count + 1]_vars
  /\ [](steps <= StepLimit /\ state.count = steps)
  /\ <>(pc = "done")

\* run_opt returned after max_iter >= 2 steps with a gradient norm that is
\* still at or above tol: the limit alone ended the loop
C22_Witness ==
  /\ pc = "done"
  /\ max_iter >= 2
  /\ steps = max_iter
  /\ ErrGeTol(state.grad, tol)

----------------------------------------------------------------------------
\* Claims about run_opt from any initialization (checked under SpecOpt)

\* C23: for any initial parameter vector, also one outside the bounds, the
\* alpha and beta fields returned by run_opt lie inside the configured
\* bounds.
C23_ReturnedInsideBounds ==
  pc = "done" => \A name \in DOMAIN params : InsideBounds(params, name)

\* C23, amended: for any initial parameter vector of numbers, also one
\* outside the bounds, run_opt returns after at least one step, and every
\* alpha and beta field returned is inside its bound interval or NaN.  A
\* vector that started outside the bounds is therefore never returned as it
\* was.
C23_ReturnedInsideBoundsOrNaN ==
  pc = "done" =>
    /\ steps >= 1
    /\ \A name \in DOMAIN params :
         IsNaN(params[name]) \/ InsideBounds(params, name)

\* run_opt, started outside the bounds, returned after its one step with
\* every field inside the bounds
C23_Witness ==
  /\ pc = "done"
  /\ ~initInside
  /\ steps = 1
  /\ clipped
  /\ \A name \in DOMAIN params : InsideBounds(params, name)

----------------------------------------------------------------------------
\* Claims about the schedule lengths in run_paramterer_recovery_with_difference
\* (checked under SpecDiff)

\* C24: the run completes for every pair of schedule lengths >= 1, and the
\* sub-batches handed to the fitter have len(trueProbabilityStable) trials
\* in the stable condition and len(trueProbabilityVolatile) trials in the
\* volatile condition for every subject, also when the two lengths differ.
C24_SubBatchLengths ==
  /\ dpc # "error"
  /\ dpc \in {"fit", "done"} =>
       \A q \in DOMAIN DiffStack :
         /\ DiffStack[q].stable.width = lenStable
         /\ DiffStack[q].volatile.width = lenVolatile

====
